---- MODULE Spec2Model ----
(***************************************************************************)
(* A model of dummy-http-client (src/src/index.ts): the five public        *)
(* operations of DummyHttpClient, the synchronous part of send (option     *)
(* merge, URL, body and header encoding, the transport invocation, the     *)
(* timer), and the asynchronous part (the fetch-then-parse promise chain   *)
(* raced against the timer).                                               *)
(*                                                                         *)
(* JavaScript values are records [kind, text, entries]: kind is the        *)
(* runtime type, text the canonical text of a scalar, entries the own      *)
(* enumerable properties of an object in insertion order.  The text of a   *)
(* number is its decimal form, so the number 42 and the string "42" are    *)
(* different values with the same text.                                    *)
(***************************************************************************)
EXTENDS Integers, Sequences, FiniteSets, TLC

VARIABLES
    pc,              \* position of the one public call: "idle", "racing", "thrown"
    request,         \* the caller's arguments: operation, url, body, partial options
    options,         \* the merged options handed to send
    defaultOptions,  \* the shared module-level defaults object
    encoded,         \* what parseRequestBody returned or threw for this call
    fetchCalls,      \* the transport invocations made so far, in order
    transport,       \* whether the transport's promises are settled at once
    chain,           \* the fetch/then/then/catch chain: "none", "fetching", "parsing", "settled"
    baseResponse,    \* the metadata captured by the first then callback
    response,        \* the raw transport response whose body is being read
    chainResult,     \* the settlement of the chain
    timer,           \* the setTimeout of timeout(): "none", "waiting", "due", "fired"
    outcome,         \* the promise returned by Promise.race
    thrown           \* the exception thrown synchronously out of the method

vars == <<pc, request, options, defaultOptions, encoded, fetchCalls, transport,
          chain, baseResponse, response, chainResult, timer, outcome, thrown>>

----------------------------------------------------------------------------
(* JavaScript values *)

JSValue(k, t, es) == [kind |-> k, text |-> t, entries |-> es]
JSNull == JSValue("null", "null", <<>>)
JSUndefined == JSValue("undefined", "undefined", <<>>)
JSString(s) == JSValue("string", s, <<>>)
JSNumber(t) == JSValue("number", t, <<>>)
JSBoolean(t) == JSValue("boolean", t, <<>>)
JSObject(es) == JSValue("object", "", es)
JSFormData == JSValue("FormData", "", <<>>)
JSBlob(raw) == JSValue("Blob", raw, <<>>)
JSError(msg) == JSValue("Error", msg, <<>>)

\* One own property of an object: a key and a scalar value.
Entry(k, v) == [key |-> k, kind |-> v.kind, text |-> v.text]

\* ToBoolean(v) is false: the values `!body` lets through.
Falsy(v) ==
    \/ v.kind \in {"null", "undefined"}
    \/ v.kind = "string" /\ v.text = ""
    \/ v.kind = "number" /\ v.text \in {"0", "NaN"}
    \/ v.kind = "boolean" /\ v.text = "false"

\* v === s for a string s: same type and same characters.
StrictEqualsString(s, v) == v.kind = "string" /\ v.text = s

\* String(v).
JSToString(v) ==
    CASE v.kind = "object" -> "[object Object]"
      [] v.kind = "FormData" -> "[object FormData]"
      [] v.kind = "Blob" -> "[object Blob]"
      [] v.kind = "Error" -> "Error: " \o v.text
      [] OTHER -> v.text

Quote(s) == "\"" \o s \o "\""

\* JSON text of a scalar property value.
JSONScalar(kind, text) ==
    CASE kind = "string" -> Quote(text)
      [] kind = "number" -> IF text = "NaN" THEN "null" ELSE text
      [] OTHER -> text

RECURSIVE JSONMembers(_)
JSONMembers(es) ==
    IF es = <<>> THEN ""
    ELSE LET e == Head(es)
             m == Quote(e.key) \o ":" \o JSONScalar(e.kind, e.text)
         IN  IF Tail(es) = <<>> THEN m ELSE m \o "," \o JSONMembers(Tail(es))

\* JSON.stringify(v) for the values that reach it (never undefined).
JSONStringify(v) ==
    CASE v.kind \in {"object", "FormData", "Blob", "Error"} ->
             "{" \o JSONMembers(v.entries) \o "}"
      [] OTHER -> JSONScalar(v.kind, v.text)

RECURSIVE QsPairs(_)
QsPairs(es) ==
    IF es = <<>> THEN ""
    ELSE LET e == Head(es)
             p == e.key \o "=" \o (IF e.kind = "null" THEN "" ELSE e.text)
         IN  IF Tail(es) = <<>> THEN p ELSE p \o "&" \o QsPairs(Tail(es))

\* qs.stringify(v): the own properties of an object as key=value joined by
\* "&"; the empty string for anything that is not an object.  (Keys and
\* texts of the model hold only characters that URI encoding leaves alone.)
QsStringify(v) ==
    IF v.kind = "object" THEN QsPairs(v.entries) ELSE ""

----------------------------------------------------------------------------
(* The pure functions of index.ts *)

DefaultTimeout == 30000
OkStatus == 200

NoHeaders == [k \in {} |-> ""]
NoParams == JSObject(<<>>)

DefaultOptionsValue ==
    [headers |-> NoHeaders, params |-> NoParams, observe |-> "body",
     contentType |-> "json", responseType |-> "json", timeout |-> DefaultTimeout]

\* A merge that lets the defaults win: { ...opts, ...defaults }.
MergeDefaultsLast(defaults, opts) ==
    [k \in DOMAIN defaults \cup DOMAIN opts |->
        IF k \in DOMAIN defaults THEN defaults[k] ELSE opts[k]]

\* { ...defaults, ...opts }: every key of either, the caller's value first.
MergeOptions(defaults, opts) ==
    [k \in DOMAIN defaults \cup DOMAIN opts |->
        IF k \in DOMAIN opts THEN opts[k] ELSE defaults[k]]

\* What the spread does to the object it reads from: nothing.
DefaultsAfterMerge(defaults, opts) == defaults

\* A timeout that takes a delay of zero or less to mean "no timeout".
timeoutUnlessZero(delay) == IF delay <= 0 THEN "none" ELSE "waiting"

\* A timeout whose negative delays are waited for like positive ones.
timeoutNegativeWaits(delay) == IF delay = 0 THEN "due" ELSE "waiting"

\* timeout(delay): the state of the timer right after setTimeout(..., delay).
\* A delay of zero or less is due at once.
timeout(delay) == IF delay <= 0 THEN "due" ELSE "waiting"

combineQueryStrings(url, params) ==
    IF Len(params.entries) = 0 THEN url
    ELSE url \o "?" \o QsStringify(params)

Returned(v) == [throws |-> FALSE, value |-> v, error |-> JSUndefined]
Threw(msg) == [throws |-> TRUE, value |-> JSUndefined, error |-> JSError(msg)]
NotEvaluated == [throws |-> FALSE, value |-> JSUndefined, error |-> JSError("not evaluated")]

\* An encoder that validates the content type before it looks at the body.
parseRequestBodyTypeFirst(contentType, body) ==
    IF contentType \notin {"text", "json", "multipart", "urlencoded"}
    THEN Threw("unknown contentType: " \o contentType)
    ELSE IF Falsy(body) THEN Returned(JSNull)
    ELSE IF contentType = "text" THEN Returned(body)
    ELSE IF contentType = "json" THEN Returned(JSString(JSONStringify(body)))
    ELSE IF contentType = "multipart" THEN
        IF body.kind # "FormData"
        THEN Threw("require a FormData instance when content type is multipart")
        ELSE Returned(body)
    ELSE Returned(JSString(QsStringify(body)))

parseRequestBody(contentType, body) ==
    IF Falsy(body) THEN Returned(JSNull)
    ELSE IF contentType = "text" THEN Returned(body)
    ELSE IF contentType = "json" THEN Returned(JSString(JSONStringify(body)))
    ELSE IF contentType = "multipart" THEN
        IF body.kind # "FormData"
        THEN Threw("require a FormData instance when content type is multipart")
        ELSE Returned(body)
    ELSE IF contentType = "urlencoded" THEN Returned(JSString(QsStringify(body)))
    ELSE Threw("unknown contentType: " \o contentType)

mergeHeaders(headers, contentType) ==
    LET contentTypeHeader ==
            IF contentType = "json" THEN "application/json"
            ELSE IF contentType = "multipart" THEN "multipart/form-data"
            ELSE IF contentType = "urlencoded" THEN "application/x-www-urlencoded"
            ELSE "plain/text"
    IN  [k \in DOMAIN headers \cup {"Content-Type"} |->
            IF k = "Content-Type" THEN contentTypeHeader ELSE headers[k]]

\* method.toUpperCase() on the method names send is called with.
toUpperCase(method) ==
    CASE method = "get" -> "GET"
      [] method = "delete" -> "DELETE"
      [] method = "post" -> "POST"
      [] method = "put" -> "PUT"
      [] method = "patch" -> "PATCH"

----------------------------------------------------------------------------
(* Responses, promise settlements and the callbacks of the chain *)

Meta(h, o, rd, st, ty, u) ==
    [headers |-> h, ok |-> o, redirected |-> rd, status |-> st, type |-> ty, url |-> u]
NoMeta == Meta(NoHeaders, FALSE, FALSE, 0, "", "")

\* A promise settlement.  shape tells what the value is: "data" (the parsed
\* body alone, in body), "response" (metadata plus body), "envelope" (a
\* tagged error object), "Error" (a plain Error, before the catch wraps it).
Settlement(st, sh, n, msg, m, b, e) ==
    [state |-> st, shape |-> sh, name |-> n, message |-> msg, meta |-> m,
     body |-> b, error |-> e]
Pending == Settlement("pending", "none", "", "", NoMeta, JSUndefined, JSUndefined)
PlainError(n, msg) ==
    Settlement("rejected", "Error", n, msg, NoMeta, JSUndefined, JSUndefined)
TimeoutEnvelope ==
    Settlement("rejected", "envelope", "timeout", "timeout", NoMeta, JSUndefined, JSUndefined)

\* The body of a transport response: its text, and what JSON.parse makes of it.
Content(raw, valid, parsed) == [raw |-> raw, valid |-> valid, parsed |-> parsed]
NoContent == Content("", FALSE, JSUndefined)

RawResponse(st, u, c) ==
    [headers |-> [k \in {"content-length"} |-> "7"], ok |-> st \in 200..299,
     redirected |-> FALSE, status |-> st, type |-> "basic", url |-> u, content |-> c]
NoResponse ==
    [headers |-> NoHeaders, ok |-> FALSE, redirected |-> FALSE, status |-> 0,
     type |-> "", url |-> "", content |-> NoContent]

\* response.json(), response.text(), response.blob(): how the promise each
\* returns settles.
Read(ok, v, msg) == [ok |-> ok, value |-> v, message |-> msg]
responseJson(r) ==
    IF r.content.valid THEN Read(TRUE, r.content.parsed, "")
    ELSE Read(FALSE, JSUndefined, "Unexpected token in JSON")
responseText(r) == Read(TRUE, JSString(r.content.raw), "")
responseBlob(r) == Read(TRUE, JSBlob(r.content.raw), "")

\* parseResponseBody: a promise of the body, or a synchronous throw.
parseResponseBody(responseType, r) ==
    IF responseType = "json" THEN [throws |-> FALSE, read |-> responseJson(r), message |-> ""]
    ELSE IF responseType = "text" THEN [throws |-> FALSE, read |-> responseText(r), message |-> ""]
    ELSE IF responseType = "blob" THEN [throws |-> FALSE, read |-> responseBlob(r), message |-> ""]
    ELSE [throws |-> TRUE, read |-> Read(FALSE, JSUndefined, ""),
          message |-> "unknown responseType: " \o responseType]

\* The first then callback's capture of the metadata.
captureBaseResponse(r) ==
    Meta(r.headers, r.ok, r.redirected, r.status, r.type, r.url)

\* A classification by the ok flag (any 2xx) instead of the status 200.
classifyByOk(base, data, observe, body) ==
    IF ~base.ok THEN
        Settlement("rejected", "envelope", "httpErrorResponse", "", base, JSUndefined, data)
    ELSE IF StrictEqualsString(observe, body) THEN
        Settlement("fulfilled", "data", "", "", NoMeta, data, JSUndefined)
    ELSE
        Settlement("fulfilled", "response", "", "", base, data, JSUndefined)

\* The second then callback: ([baseResponse, data]) => ...
\* body is send's fourth argument, observe is options.observe.
classify(base, data, observe, body) ==
    IF base.status # OkStatus THEN
        Settlement("rejected", "envelope", "httpErrorResponse", "", base, JSUndefined, data)
    ELSE IF StrictEqualsString(observe, body) THEN
        Settlement("fulfilled", "data", "", "", NoMeta, data, JSUndefined)
    ELSE
        Settlement("fulfilled", "response", "", "", base, data, JSUndefined)

\* A catch that passes every error on as it came.
catchRethrow(err) == err

\* The catch callback: (err) => ...
catchHandler(err) ==
    IF err.name = "httpErrorResponse" THEN err
    ELSE Settlement("rejected", "envelope", "networkError", "", NoMeta, JSUndefined,
                    IF err.shape = "Error" THEN JSError(err.name \o ": " \o err.message)
                    ELSE err.error)

\* A settlement passing through .catch: a fulfilment skips the callback.
throughCatch(s) == IF s.state = "rejected" THEN catchHandler(s) ELSE s

\* A race that the last settlement wins.
raceLastWins(current, settlement) == settlement

\* Promise.race: the first settlement of a member settles the race; later
\* ones change nothing.
race(current, settlement) ==
    IF current.state = "pending" THEN settlement ELSE current

----------------------------------------------------------------------------
(* The inputs the calls are drawn from *)

Urls == {"/api"}

ObjectA == JSObject(<<Entry("a", JSNumber("1"))>>)

\* Request bodies of post, put and patch: a falsy one, the string that spells
\* an observe mode, a plain object and a FormData.
Bodies == {JSString(""), JSString("body"), ObjectA, JSFormData}

NoOptions == [k \in {} |-> ""]
Field(k, v) == [x \in {k} |-> v]
Choices(k, values) == {NoOptions} \cup {Field(k, v) : v \in values}

CallerHeaders == {[k \in {"Content-Type", "X-Token"} |-> "custom"]}
CallerParams == {ObjectA}
CallerObserve == {"body", "response"}
CallerContentTypes == {"text", "multipart", "urlencoded", "xml"}
CallerResponseTypes == {"text", "blob", "xml"}
CallerTimeouts == {0, -1}

\* The most option fields one call supplies.
MaxSupplied == 2

\* The partial options a caller may pass: up to MaxSupplied of the six fields.
AllCallerOptions ==
    {h @@ p @@ o @@ c @@ r @@ t :
        h \in Choices("headers", CallerHeaders),
        p \in Choices("params", CallerParams),
        o \in Choices("observe", CallerObserve),
        c \in Choices("contentType", CallerContentTypes),
        r \in Choices("responseType", CallerResponseTypes),
        t \in Choices("timeout", CallerTimeouts)}
CallerOptions == {o \in AllCallerOptions : Cardinality(DOMAIN o) <= MaxSupplied}

Statuses == {200, 201, 404}
GoodContent == Content("{\"x\":1}", TRUE, JSObject(<<Entry("x", JSNumber("1"))>>))
BadContent == Content("oops", FALSE, JSUndefined)
Contents == {GoodContent, BadContent}

\* A transport is immediate when the promises it hands out (fetch's, and the
\* body's) are settled by the time they are handed out.
NoTransport == [immediate |-> FALSE]
Transports == [immediate : BOOLEAN]

NoRequest == [op |-> "", url |-> "", body |-> JSUndefined, options |-> NoOptions]

----------------------------------------------------------------------------
(* The state machine *)

Init ==
    /\ pc = "idle"
    /\ request = NoRequest
    /\ options = DefaultOptionsValue
    /\ defaultOptions = DefaultOptionsValue
    /\ encoded = NotEvaluated
    /\ fetchCalls = <<>>
    /\ transport = NoTransport
    /\ chain = "none"
    /\ baseResponse = NoMeta
    /\ response = NoResponse
    /\ chainResult = Pending
    /\ timer = "none"
    /\ outcome = Pending
    /\ thrown = JSUndefined

\* A reaction of the chain that is already runnable: a microtask.  Timer
\* callbacks are tasks, and run only when no microtask is left.
MicrotaskPending ==
    /\ transport.immediate
    /\ chain \in {"fetching", "parsing"}

\* send(method, url, options, body), up to the return of Promise.race([...]).
\* The array's elements are evaluated left to right, and fetch's arguments
\* before fetch: a throw of parseRequestBody leaves send before fetch is
\* called and before timeout() sets the timer.
send(method, url, opts, body) ==
    LET enc == parseRequestBody(opts.contentType, body) IN
    /\ options' = opts
    /\ encoded' = enc
    /\ IF enc.throws THEN
          /\ pc' = "thrown"
          /\ thrown' = enc.error
          /\ UNCHANGED <<fetchCalls, transport, chain, timer>>
       ELSE
          /\ pc' = "racing"
          /\ fetchCalls' = Append(fetchCalls,
                [method |-> toUpperCase(method),
                 url |-> combineQueryStrings(url, opts.params),
                 body |-> enc.value,
                 headers |-> mergeHeaders(opts.headers, opts.contentType)])
          /\ \E tr \in Transports : transport' = tr
          /\ chain' = "fetching"
          /\ timer' = timeout(opts.timeout)
          /\ thrown' = thrown
    /\ UNCHANGED <<baseResponse, response, chainResult, outcome>>

\* What every public method does around send: the call is recorded, the
\* options are spread over the defaults.
Enter(op, url, body, opts) ==
    /\ pc = "idle"
    /\ request' = [op |-> op, url |-> url, body |-> body, options |-> opts]
    /\ defaultOptions' = DefaultsAfterMerge(defaultOptions, opts)

Get ==
    \E url \in Urls, opts \in CallerOptions :
        /\ Enter("get", url, JSNull, opts)
        /\ send("get", url, MergeOptions(defaultOptions, opts), JSNull)

Delete ==
    \E url \in Urls, opts \in CallerOptions :
        /\ Enter("delete", url, JSNull, opts)
        /\ send("delete", url, MergeOptions(defaultOptions, opts), JSNull)

Post ==
    \E url \in Urls, body \in Bodies, opts \in CallerOptions :
        /\ Enter("post", url, body, opts)
        /\ send("post", url, MergeOptions(defaultOptions, opts), body)

Put ==
    \E url \in Urls, body \in Bodies, opts \in CallerOptions :
        /\ Enter("put", url, body, opts)
        /\ send("put", url, MergeOptions(defaultOptions, opts), body)

\* A patch that is sent as PATCH.
PatchAsPatch ==
    \E url \in Urls, body \in Bodies, opts \in CallerOptions :
        /\ Enter("patch", url, body, opts)
        /\ send("patch", url, MergeOptions(defaultOptions, opts), body)

Patch ==
    \E url \in Urls, body \in Bodies, opts \in CallerOptions :
        /\ Enter("patch", url, body, opts)
        /\ send("put", url, MergeOptions(defaultOptions, opts), body)

\* The chain settles with s: the race sees it.
SettleChain(s) ==
    /\ chain' = "settled"
    /\ chainResult' = s
    /\ outcome' = race(outcome, s)

\* send's fourth argument: the caller's body, the literal null in get and
\* delete (which is what request.body records for them).
SentBody == request.body

\* fetch's promise fulfils with a response: the first then callback captures
\* the metadata and calls parseResponseBody; a throw there goes to the catch.
FetchResolve ==
    /\ chain = "fetching"
    /\ \E st \in Statuses, c \in Contents :
        LET r == RawResponse(st, fetchCalls[Len(fetchCalls)].url, c)
            p == parseResponseBody(options.responseType, r)
        IN  /\ baseResponse' = captureBaseResponse(r)
            /\ response' = r
            /\ IF p.throws
               THEN SettleChain(throughCatch(PlainError("Error", p.message)))
               ELSE /\ chain' = "parsing"
                    /\ UNCHANGED <<chainResult, outcome>>
    /\ UNCHANGED <<pc, request, options, defaultOptions, encoded, fetchCalls,
                   transport, timer, thrown>>

\* fetch's promise rejects: both then callbacks are skipped.
FetchReject ==
    /\ chain = "fetching"
    /\ SettleChain(throughCatch(PlainError("TypeError", "Failed to fetch")))
    /\ UNCHANGED <<pc, request, options, defaultOptions, encoded, fetchCalls,
                   transport, baseResponse, response, timer, thrown>>

\* The body promise settles: Promise.all settles with it, then the second
\* then callback (on fulfilment) and the catch (on rejection) run.
ParseSettle ==
    /\ chain = "parsing"
    /\ LET rd == parseResponseBody(options.responseType, response).read IN
        IF rd.ok
        THEN SettleChain(throughCatch(
                 classify(baseResponse, rd.value, options.observe, SentBody)))
        ELSE SettleChain(throughCatch(PlainError("SyntaxError", rd.message)))
    /\ UNCHANGED <<pc, request, options, defaultOptions, encoded, fetchCalls,
                   transport, baseResponse, response, timer, thrown>>

\* The delay of a waiting timer runs out.
TimerElapse ==
    /\ timer = "waiting"
    /\ timer' = "due"
    /\ UNCHANGED <<pc, request, options, defaultOptions, encoded, fetchCalls,
                   transport, chain, baseResponse, response, chainResult,
                   outcome, thrown>>

\* The timer's callback runs: reject({ name: 'timeout', message: 'timeout' }).
TimerFire ==
    /\ timer = "due"
    /\ ~MicrotaskPending
    /\ timer' = "fired"
    /\ outcome' = race(outcome, TimeoutEnvelope)
    /\ UNCHANGED <<pc, request, options, defaultOptions, encoded, fetchCalls,
                   transport, chain, baseResponse, response, chainResult, thrown>>

Next ==
    \/ Get
    \/ Delete
    \/ Post
    \/ Put
    \/ Patch
    \/ FetchResolve
    \/ FetchReject
    \/ ParseSettle
    \/ TimerElapse
    \/ TimerFire

Spec == Init /\ [][Next]_vars

\* The event loop runs every reaction that is runnable and every timer that
\* is due: setTimeout's delay elapses, its callback is run, and the reactions
\* of promises that are already settled are run.  Nothing obliges the
\* transport to settle a promise that is not.
RunMicrotask == transport.immediate /\ (FetchResolve \/ FetchReject \/ ParseSettle)

FairSpec ==
    /\ Init
    /\ [][Next]_vars
    /\ WF_vars(TimerElapse)
    /\ WF_vars(TimerFire)
    /\ WF_vars(RunMicrotask)

----------------------------------------------------------------------------
(* Vocabulary of the properties *)

ContentTypes == {"json", "text", "multipart", "urlencoded"}
ResponseTypes == {"text", "json", "blob"}
OptionKeys == {"headers", "params", "observe", "contentType", "responseType", "timeout"}
EnvelopeNames == {"timeout", "httpErrorResponse", "networkError"}

Called == pc # "idle"
Racing == pc = "racing"
Settled == outcome.state # "pending"

\* The terminal state of the call, in the words of the state machine.
CallState ==
    IF outcome.state = "pending" THEN "pending"
    ELSE IF outcome.state = "fulfilled" THEN "succeeded"
    ELSE IF outcome.shape = "envelope" /\ outcome.name = "timeout" THEN "rejected:timeout"
    ELSE IF outcome.shape = "envelope" /\ outcome.name = "httpErrorResponse" THEN "rejected:httpError"
    ELSE IF outcome.shape = "envelope" /\ outcome.name = "networkError" THEN "rejected:networkError"
    ELSE "other"

\* The transport answered and the body was read in the declared type.
BodyRead ==
    /\ response # NoResponse
    /\ ~parseResponseBody(options.responseType, response).throws
    /\ parseResponseBody(options.responseType, response).read.ok
ReadValue == parseResponseBody(options.responseType, response).read.value

NetworkError(text) ==
    [state |-> "rejected", shape |-> "envelope", name |-> "networkError",
     message |-> "", meta |-> NoMeta, body |-> JSUndefined,
     error |-> [kind |-> "Error", text |-> text, entries |-> <<>>]]

----------------------------------------------------------------------------
(* Properties *)

\* C1: the chain and the timer race.  A timer callback that runs while the
\* chain has not settled (the response may already be there, its body still
\* being read) settles the call with the timeout envelope; a chain that
\* settles while the timer has not fired settles the call with the chain's
\* result; and once the call is settled, nothing changes its outcome.
C1_FirstSettlementWins ==
    [][ /\ (timer # "fired" /\ timer' = "fired" /\ chain # "settled")
            => outcome' = TimeoutEnvelope
        /\ (chain # "settled" /\ chain' = "settled" /\ timer # "fired")
            => (outcome' = chainResult' /\ outcome' # TimeoutEnvelope)
        /\ (outcome.state # "pending") => outcome' = outcome ]_vars

\* C1 witness: the timer fired first, the chain fulfilled later, and the
\* call is still the timeout.
C1_Witness ==
    /\ timer = "fired"
    /\ chain = "settled"
    /\ chainResult.state = "fulfilled"
    /\ outcome = TimeoutEnvelope
    /\ outcome.name = "timeout" /\ outcome.message = "timeout"

\* C3: a response whose body was read, in a call the timer did not settle,
\* is classified by the status alone: 200 fulfils, anything else rejects with
\* the httpErrorResponse envelope holding the metadata and the parsed body.
C3_ClassifiedByStatus ==
    (chain = "settled" /\ BodyRead /\ outcome # TimeoutEnvelope) =>
        /\ response.status = 200 => outcome.state = "fulfilled"
        /\ response.status # 200 =>
            outcome = [state |-> "rejected", shape |-> "envelope",
                       name |-> "httpErrorResponse", message |-> "",
                       meta |-> [headers |-> response.headers, ok |-> response.ok,
                                 redirected |-> response.redirected,
                                 status |-> response.status, type |-> response.type,
                                 url |-> response.url],
                       body |-> JSUndefined, error |-> ReadValue]

\* C3 witness: a 201 whose body was read ended as an httpErrorResponse.
C3_Witness ==
    /\ chain = "settled" /\ BodyRead
    /\ response.status = 201 /\ response.ok
    /\ outcome.state = "rejected" /\ outcome.name = "httpErrorResponse"
    /\ outcome.error = ReadValue

\* The method the transport sees for each public operation.
ExpectedMethod(op) ==
    CASE op = "get" -> "GET"
      [] op = "delete" -> "DELETE"
      [] op = "post" -> "POST"
      [] op = "put" -> "PUT"
      [] op = "patch" -> "PUT"

\* C7: a call invokes the transport at most once; the method is the
\* operation's name in upper case, PUT for patch; get and delete send null,
\* the others what parseRequestBody made of the caller's body.
C7_OneTransportCall ==
    /\ Len(fetchCalls) <= 1
    /\ Len(fetchCalls) = 1 =>
        /\ Racing
        /\ fetchCalls[1].method = ExpectedMethod(request.op)
        /\ request.op \in {"get", "delete"} => fetchCalls[1].body = JSNull
        /\ request.op \in {"post", "put", "patch"} =>
            /\ ~parseRequestBody(options.contentType, request.body).throws
            /\ fetchCalls[1].body =
                   parseRequestBody(options.contentType, request.body).value

\* C7 witness: a patch with a body went out as PUT.
C7_Witness ==
    /\ Len(fetchCalls) = 1
    /\ request.op = "patch"
    /\ fetchCalls[1].method = "PUT"
    /\ fetchCalls[1].body = JSString("{\"a\":1}")

\* C9: the options a call uses are the documented defaults with every field
\* the caller supplied put in its place, whole; the shared defaults stay as
\* they were.
C9_ShallowMerge ==
    LET given == request.options IN
    Called =>
        /\ DOMAIN options = OptionKeys
        /\ options.headers =
               IF "headers" \in DOMAIN given THEN given.headers ELSE [k \in {} |-> ""]
        /\ options.params =
               IF "params" \in DOMAIN given THEN given.params ELSE JSObject(<<>>)
        /\ options.observe =
               IF "observe" \in DOMAIN given THEN given.observe ELSE "body"
        /\ options.contentType =
               IF "contentType" \in DOMAIN given THEN given.contentType ELSE "json"
        /\ options.responseType =
               IF "responseType" \in DOMAIN given THEN given.responseType ELSE "json"
        /\ options.timeout =
               IF "timeout" \in DOMAIN given THEN given.timeout ELSE 30000
        /\ defaultOptions =
               [headers |-> [k \in {} |-> ""], params |-> JSObject(<<>>),
                observe |-> "body", contentType |-> "json",
                responseType |-> "json", timeout |-> 30000]

\* C9 witness: a call that supplied headers and a timeout and nothing else.
C9_Witness ==
    /\ Called
    /\ DOMAIN request.options = {"headers", "timeout"}
    /\ options.timeout = 0
    /\ options.headers = [k \in {"Content-Type", "X-Token"} |-> "custom"]
    /\ options.observe = "body"

\* C2 as stated: every call is pending or in one of the four terminal states.
C2_Original ==
    Called =>
        /\ Racing
        /\ CallState \in {"pending", "succeeded", "rejected:timeout",
                          "rejected:httpError", "rejected:networkError"}

\* C2, amended: a call whose body encodes is pending or in exactly one of the
\* four terminal states, keeps the state it ended in, and does not stay
\* pending for ever, even when the transport never answers; a call whose body
\* does not encode never becomes pending: the method throws.
C2_OneTerminalState ==
    /\ [](Racing =>
            /\ ~encoded.throws
            /\ CallState \in {"pending", "succeeded", "rejected:timeout",
                              "rejected:httpError", "rejected:networkError"})
    /\ [](pc = "thrown" =>
            /\ encoded.throws
            /\ CallState = "pending" /\ chain = "none" /\ timer = "none")
    /\ [][Settled => outcome' = outcome]_vars
    /\ (Racing ~> Settled)

\* C2 witness: the transport never answered and the timer ended the call.
C2_Witness ==
    /\ Racing
    /\ chain = "fetching"
    /\ CallState = "rejected:timeout"

\* C4 as stated: a successful call resolves with the parsed body alone when
\* the merged observe is 'body', and with metadata plus body when it is
\* 'response'.
C4_Original ==
    (Racing /\ outcome.state = "fulfilled") =>
        /\ options.observe = "body" =>
            (outcome.shape = "data" /\ outcome.body = ReadValue)
        /\ options.observe = "response" =>
            (outcome.shape = "response" /\ outcome.body = ReadValue
             /\ outcome.meta = baseResponse)

\* C5 as stated: no failure leaves the method as a synchronous throw, and
\* every rejection carries one of the three names.
C5_Original ==
    /\ pc # "thrown"
    /\ outcome.state = "rejected" =>
        (outcome.shape = "envelope" /\ outcome.name \in EnvelopeNames)

\* C5, amended: every failure after the transport was invoked rejects with
\* one of the three names; a transport failure, a body that cannot be read
\* (whatever the status) and an unknown response type make the chain reject
\* with networkError holding the error; a failure to encode the request body
\* is thrown out of the method as a plain Error, with no promise and no
\* transport call.
C5_TaggedRejections ==
    /\ outcome.state = "rejected" =>
        (outcome.shape = "envelope" /\ outcome.name \in EnvelopeNames)
    /\ Settled => (outcome = chainResult \/ outcome = TimeoutEnvelope)
    /\ (chain = "settled" /\ response = NoResponse) =>
        chainResult = NetworkError("TypeError: Failed to fetch")
    /\ (chain = "settled" /\ response # NoResponse
            /\ options.responseType \in ResponseTypes /\ ~BodyRead) =>
        chainResult = NetworkError("SyntaxError: Unexpected token in JSON")
    /\ (chain = "settled" /\ response # NoResponse
            /\ options.responseType \notin ResponseTypes) =>
        chainResult = NetworkError("Error: unknown responseType: " \o options.responseType)
    /\ (Called /\ encoded.throws) =>
        /\ pc = "thrown"
        /\ thrown = encoded.error /\ thrown.kind = "Error"
        /\ fetchCalls = <<>> /\ outcome = Pending
    /\ (Called /\ ~encoded.throws) => (Racing /\ thrown = JSUndefined)

\* C5 witness: a multipart call with a plain object threw out of the method.
C5_Witness ==
    /\ pc = "thrown"
    /\ options.contentType = "multipart"
    /\ request.body = ObjectA
    /\ thrown = JSError("require a FormData instance when content type is multipart")
    /\ fetchCalls = <<>>

\* C6 as stated: an unknown content type or response type makes the call
\* fail synchronously, whatever the body, before the transport is invoked.
C6_Original ==
    (Called /\ (options.contentType \notin ContentTypes
                \/ options.responseType \notin ResponseTypes)) =>
        (pc = "thrown" /\ fetchCalls = <<>> /\ timer = "none")

\* C6, amended: an unknown content type makes the call throw, before the
\* transport is invoked and before the timer is set, when the body is truthy;
\* with a falsy body it raises nothing and the transport is invoked.  An
\* unknown response type never stops the call before the transport: it is
\* found when the response arrives, and rejects the chain with networkError.
C6_ValidationOrder ==
    Called =>
        /\ (options.contentType \notin ContentTypes /\ ~Falsy(SentBody)) =>
            /\ pc = "thrown"
            /\ thrown = JSError("unknown contentType: " \o options.contentType)
            /\ fetchCalls = <<>> /\ chain = "none" /\ timer = "none"
            /\ outcome = Pending
        /\ (options.contentType \notin ContentTypes /\ Falsy(SentBody)) =>
            /\ Racing
            /\ Len(fetchCalls) = 1 /\ fetchCalls[1].body = JSNull
        /\ (options.responseType \notin ResponseTypes /\ Racing) =>
            /\ Len(fetchCalls) = 1
            /\ chain # "parsing"
            /\ chain = "settled" =>
                (response = NoResponse
                 \/ chainResult = NetworkError("Error: unknown responseType: "
                                               \o options.responseType))
        /\ pc = "thrown" => ~Falsy(SentBody)

\* C6 witness: an unknown content type with a truthy body threw before any
\* transport call.
C6_Witness ==
    /\ pc = "thrown"
    /\ options.contentType = "xml"
    /\ ~Falsy(request.body)
    /\ fetchCalls = <<>> /\ timer = "none"

\* C8 as stated: what the encoder returns for every content type and payload,
\* the payload as a string for text.
C8_Original ==
    LET b == SentBody
        ct == options.contentType
    IN  Called =>
        /\ Falsy(b) => encoded = Returned(JSNull)
        /\ (~Falsy(b) /\ ct = "text") =>
            encoded = Returned(JSString(JSToString(b)))
        /\ (~Falsy(b) /\ ct = "json") =>
            encoded = Returned(JSString(JSONStringify(b)))
        /\ (~Falsy(b) /\ ct = "multipart") =>
            IF b.kind = "FormData" THEN encoded = Returned(b) ELSE encoded.throws
        /\ (~Falsy(b) /\ ct = "urlencoded") =>
            encoded = Returned(JSString(QsStringify(b)))
        /\ (~Falsy(b) /\ ct \notin ContentTypes) => encoded.throws

\* C10 as stated: a call whose timeout is zero or negative always ends as
\* rejected:timeout.
C10_Original ==
    (Racing /\ options.timeout <= 0 /\ Settled) => CallState = "rejected:timeout"

\* C10, amended: the timer of a call whose timeout is zero or negative is due
\* from the moment the call is made; the call ends as rejected:timeout when
\* the timer's callback runs before the chain settles, and with the chain's
\* result when the chain settles first, as it always does when the
\* transport's response and body are available at once.
C10_ZeroTimeoutRace ==
    (Racing /\ options.timeout <= 0) =>
        /\ timer \in {"due", "fired"}
        /\ (timer = "fired" /\ chain # "settled") => CallState = "rejected:timeout"
        /\ (chain = "settled" /\ timer # "fired") => outcome = chainResult
        /\ (transport.immediate /\ Settled) =>
            (outcome = chainResult /\ CallState # "rejected:timeout")
        /\ (transport.immediate /\ timer = "fired") => chain = "settled"

\* C10 witness: a zero timeout, a transport that answers at once, a success.
C10_Witness ==
    /\ Racing
    /\ options.timeout = 0
    /\ transport.immediate
    /\ timer = "fired"
    /\ CallState = "succeeded"

====
